---- MODULE Spec2Model ----
(***************************************************************************)
(* Transcript-to-structured-data pipeline of finch-onsite:                 *)
(*   - the token estimator          (lib/ai/token-estimator.ts)            *)
(*   - the chunker                  (lib/ai/chunker.ts)                    *)
(*   - the pipeline orchestrator    (lib/ai/processor.ts)                  *)
(*   - the 4-way section extractor  (lib/ai/specialized-extractor.ts)      *)
(*   - the section merger           (lib/ai/specialized-merger.ts)         *)
(* Texts are TLA+ strings; positions are 0-based as in the TypeScript.     *)
(***************************************************************************)
EXTENDS Integers, Sequences, FiniteSets, Bags, TLC

VARIABLES
    \* ---- chunkTranscript ----
    transcript,        \* the Transcript argument: its segments
    maxChunkTokens,    \* argument maxChunkTokens
    overlapTokens,     \* argument overlapTokens
    fullText,          \* const fullText
    chunks,            \* const chunks: string[]
    currentPosition,   \* let currentPosition
    spans,             \* history: <<start, end>> of every pushed chunk
    cpc,               \* position in chunkTranscript: "start", "loop", "done"
    \* ---- processTranscript ----
    MAX_RETRIES,       \* AI_CONFIG.MAX_RETRIES, the configured retry budget
    segmentsWithTurnIds, \* the optional argument segmentsWithTurnIds
    chunksWithTurns,   \* const chunksWithTurns: {chunk, turns}[]
    numChunks,         \* chunksWithTurns.length
    i,                 \* loop index of the chunk loop (1-based chunk number)
    attempt,           \* 1 = first call of extractFromChunkParallel, 2 = retry
    stale,             \* bag: calls of abandoned attempts still in flight, by attempt
    settled,           \* sections of the awaited attempt that have fulfilled
    extractions,       \* const extractions: ChunkExtraction[]
    mergeInput,        \* the argument handed to mergeChunkExtractions
    merged,            \* what mergeChunkExtractions did: returned a value or threw
    passedTurns,       \* history: the turns argument of every extractFromChunkParallel call
    dispatched,        \* history: every section call ever dispatched
    failedAttempts,    \* history: <<chunk, attempt>> of every attempt with a rejected call
    ppc                \* position in processTranscript

chunkerVars == <<transcript, maxChunkTokens, overlapTokens, fullText, chunks,
                 currentPosition, spans, cpc>>
processorVars == <<MAX_RETRIES, segmentsWithTurnIds, chunksWithTurns, numChunks,
                   i, attempt, stale, settled, extractions, mergeInput, merged,
                   passedTurns, dispatched, failedAttempts, ppc>>
vars == <<transcript, maxChunkTokens, overlapTokens, fullText, chunks,
          currentPosition, spans, cpc,
          MAX_RETRIES, segmentsWithTurnIds, chunksWithTurns, numChunks,
          i, attempt, stale, settled, extractions, mergeInput, merged,
          passedTurns, dispatched, failedAttempts, ppc>>

----------------------------------------------------------------------------
(* Bounds of the model *)

MaxSegments == 2        \* segments per short transcript
MaxTokens == 6          \* largest maxChunkTokens tried on short transcripts
MaxOverlap == 2         \* largest overlapTokens tried on short transcripts
MaxChunkCount == 24     \* iterations of the chunking loop that are followed
MaxChunks == 2          \* chunks handed to the orchestrator
MaxRetryBudget == 2     \* largest configured AI_CONFIG.MAX_RETRIES
MaxExtractions == 3     \* chunk extractions handed to the merger on its own

(* Program constants *)

CharsPerToken == 4      \* 1 / AI_CONFIG.ESTIMATED_TOKENS_PER_CHAR (0.25)
LookbackChars == 200    \* findChunkEnd: "Look back up to 200 chars"

Min(a, b) == IF a < b THEN a ELSE b
Max(a, b) == IF a > b THEN a ELSE b

----------------------------------------------------------------------------
(* JavaScript string primitives *)

\* s.substring(a, b): arguments clamped to [0, length] and swapped if a > b
Substring(s, a, b) ==
    LET ca == Max(0, Min(a, Len(s)))
        cb == Max(0, Min(b, Len(s)))
    IN  SubSeq(s, Min(ca, cb) + 1, Max(ca, cb))

CharAt(s, k) == Substring(s, k, k + 1)

\* s.lastIndexOf(pat): the largest index at which pat occurs, or -1
LastIndexOf(s, pat) ==
    LET found == {k \in 0..(Len(s) - Len(pat)) : Substring(s, k, k + Len(pat)) = pat}
    IN  IF found = {} THEN -1
        ELSE CHOOSE k \in found : \A m \in found : m <= k

\* `${n}` for a non-negative integer n
Digit(d) == SubSeq("0123456789", d + 1, d + 1)

RECURSIVE NumberToString(_)
NumberToString(n) ==
    IF n < 10 THEN Digit(n)
    ELSE NumberToString(n \div 10) \o Digit(n % 10)

\* parts.join(sep)
RECURSIVE Join(_, _)
Join(parts, sep) ==
    IF parts = <<>> THEN ""
    ELSE IF Len(parts) = 1 THEN parts[1]
    ELSE parts[1] \o sep \o Join(Tail(parts), sep)

UpperCase == {"A", "B", "C", "D", "E", "F", "G", "H", "I", "J", "K", "L", "M",
              "N", "O", "P", "Q", "R", "S", "T", "U", "V", "W", "X", "Y", "Z"}
WhiteSpace == {" ", "\n", "\t", "\r"}
SentencePunct == {".", "!", "?"}

----------------------------------------------------------------------------
(* Section merger (lib/ai/specialized-merger.ts)                           *)
(* A property that zod declares .nullable() or .optional() holds a tagged  *)
(* JavaScript value; a required string, enum or boolean is a plain TLA+    *)
(* value.  An optional property that is absent holds Undefined.            *)

Null == [t |-> "null"]
Undefined == [t |-> "undefined"]
Str(s) == [t |-> "string", v |-> s]
Bool(b) == [t |-> "boolean", v |-> b]
Obj(o) == [t |-> "object", v |-> o]
Arr(a) == [t |-> "array", v |-> a]

\* obj.prop: a property the object does not have reads as undefined
Prop(obj, prop) == IF prop \in DOMAIN obj THEN obj[prop] ELSE Undefined

\* ToBoolean of a tagged value
Truthy(x) ==
    CASE x.t = "string" -> x.v # ""
      [] x.t = "boolean" -> x.v
      [] x.t = "object" -> TRUE
      [] x.t = "array" -> TRUE
      [] OTHER -> FALSE

\* a || b
LogicalOr(a, b) == IF Truthy(a) THEN a ELSE b

\* variant: a || b in place of a ?? b
NullishCoalesceFalsy(a, b) == IF Truthy(a) THEN a ELSE b

\* a ?? b
NullishCoalesce(a, b) == IF a \in {Null, Undefined} THEN b ELSE a

\* obj?.prop
OptionalChain(obj, prop) ==
    IF obj \in {Null, Undefined} THEN Undefined ELSE Prop(obj, prop)

\* variant: the list is scanned in its own order
ReverseKeepsOrder(seq) == seq

\* [...seq].reverse()
Reverse(seq) == [k \in 1..Len(seq) |-> seq[Len(seq) + 1 - k]]

\* seq.find((e) => e[prop]): the first element whose prop is truthy, or
\* undefined
Find(seq, prop) ==
    LET hits == {k \in 1..Len(seq) : Truthy(Prop(seq[k], prop))}
    IN  IF hits = {} THEN Undefined
        ELSE seq[CHOOSE k \in hits : \A m \in hits : k <= m]

\* seq.map((e) => e[prop])
MapProp(seq, prop) == [k \in 1..Len(seq) |-> seq[k][prop]]

\* s.split(sep) for a one-character separator
RECURSIVE Split(_, _)
Split(s, sep) ==
    LET at == {k \in 1..Len(s) : SubSeq(s, k, k) = sep}
    IN  IF at = {} THEN <<s>>
        ELSE LET k == CHOOSE a \in at : \A b \in at : a <= b
             IN  <<SubSeq(s, 1, k - 1)>> \o Split(SubSeq(s, k + 1, Len(s)), sep)

\* s.trim()
Trim(s) ==
    LET ink == {k \in 1..Len(s) : SubSeq(s, k, k) \notin WhiteSpace}
    IN  IF ink = {} THEN ""
        ELSE SubSeq(s, CHOOSE a \in ink : \A b \in ink : a <= b,
                       CHOOSE a \in ink : \A b \in ink : a >= b)

\* s.startsWith(prefix)
StartsWith(s, prefix) ==
    Len(s) >= Len(prefix) /\ SubSeq(s, 1, Len(prefix)) = prefix

LowerCaseLetters == "abcdefghijklmnopqrstuvwxyz"
UpperCaseLetters == "ABCDEFGHIJKLMNOPQRSTUVWXYZ"

\* s.toLowerCase()
RECURSIVE ToLowerCase(_)
ToLowerCase(s) ==
    IF s = "" THEN ""
    ELSE LET c == SubSeq(s, 1, 1)
             up == {k \in 1..Len(UpperCaseLetters) : SubSeq(UpperCaseLetters, k, k) = c}
         IN  (IF up = {} THEN c
              ELSE LET k == CHOOSE k \in up : TRUE IN SubSeq(LowerCaseLetters, k, k))
             \o ToLowerCase(SubSeq(s, 2, Len(s)))

\* seqs.flat(): the concatenation of a list of lists
RECURSIVE Flat(_)
Flat(seqs) == IF seqs = <<>> THEN <<>> ELSE Head(seqs) \o Flat(Tail(seqs))

\* variant: nothing is filtered out
FirstOccurrencesKeepAll(seq, keys, seen) == seq

\* the elements of seq whose key (the element of keys at the same index) is
\* met for the first time, in order: what [...new Set(seq)] keeps (each
\* element its own key) and what the seen-set filter of mergeDamages keeps
RECURSIVE FirstOccurrences(_, _, _)
FirstOccurrences(seq, keys, seen) ==
    IF seq = <<>> THEN <<>>
    ELSE IF Head(keys) \in seen
         THEN FirstOccurrences(Tail(seq), Tail(keys), seen)
         ELSE <<Head(seq)>>
              \o FirstOccurrences(Tail(seq), Tail(keys), seen \cup {Head(keys)})

\* variant: Math.floor in place of Math.round
MathFloor(num, den) == num \div den

\* Math.round(num / den) for num >= 0 and den > 0: floor(num / den + 1/2)
MathRound(num, den) == (2 * num + den) \div (2 * den)

RECURSIVE Sum(_)
Sum(seq) == IF seq = <<>> THEN 0 ELSE Head(seq) + Sum(Tail(seq))

ClientInfoScalars == {"clientName", "clientDob", "clientPhone", "clientEmail",
                      "clientAddress", "incidentDate", "incidentLocation"}

\* mergeClientInfo, lines 7-27
mergeClientInfo(infos) ==
    LET reversed == Reverse(infos)
        Pick(prop, default) ==
            LogicalOr(OptionalChain(Find(reversed, prop), prop), default)
    IN  [caseType |-> Pick("caseType", Str("mva")),
         clientName |-> Pick("clientName", Null),
         clientDob |-> Pick("clientDob", Null),
         clientPhone |-> Pick("clientPhone", Null),
         clientEmail |-> Pick("clientEmail", Null),
         clientAddress |-> Pick("clientAddress", Null),
         incidentDate |-> Pick("incidentDate", Null),
         incidentLocation |-> Pick("incidentLocation", Null)]

\* variant: the line is tested as it stands, untrimmed
IsBulletLineUntrimmed(line) == StartsWith(line, "-") \/ StartsWith(line, "*")

\* the filter of lines 40: a line whose trimmed text starts with - or *
IsBulletLine(line) == StartsWith(Trim(line), "-") \/ StartsWith(Trim(line), "*")

\* lines 36-42: the bullet lines of every rationale, trimmed
AllPoints(liabilities) ==
    LET kept == Flat([k \in 1..Len(liabilities) |->
                        SelectSeq(Split(liabilities[k].rationale, "\n"), IsBulletLine)])
    IN  [k \in 1..Len(kept) |-> Trim(kept[k])]

\* line 45: [...new Set(allPoints)]
UniquePoints(liabilities) ==
    FirstOccurrences(AllPoints(liabilities), AllPoints(liabilities), {})

\* variant: the last determination that is not unclear
MergedAtFaultLatest(liabilities) ==
    LET faultDeterminations == MapProp(liabilities, "atFault")
        known == {k \in 1..Len(faultDeterminations) : faultDeterminations[k] # "unclear"}
    IN  IF known = {} THEN "unclear"
        ELSE faultDeterminations[CHOOSE k \in known : \A m \in known : k >= m]

\* lines 55-57: the first determination that is not unclear
MergedAtFault(liabilities) ==
    LET faultDeterminations == MapProp(liabilities, "atFault")
        known == {k \in 1..Len(faultDeterminations) : faultDeterminations[k] # "unclear"}
    IN  IF known = {} THEN "unclear"
        ELSE faultDeterminations[CHOOSE k \in known : \A m \in known : k <= m]

\* lines 60-81
MergedFaultPercentages(liabilities, atFault) ==
    IF atFault = "shared"
    THEN LET sharedLiabilities ==
                 SelectSeq(liabilities,
                           LAMBDA l : l.atFault = "shared"
                                          /\ Truthy(Prop(l, "faultPercentages")))
             n == Len(sharedLiabilities)
         IN  IF n > 0
             THEN Obj([client |->
                          MathRound(Sum([k \in 1..n |->
                              sharedLiabilities[k].faultPercentages.v.client]), n),
                       otherParty |->
                          MathRound(Sum([k \in 1..n |->
                              sharedLiabilities[k].faultPercentages.v.otherParty]), n)])
             ELSE Undefined
    ELSE Undefined

\* variant: a police report only when every chunk mentions one
mergeLiabilityEveryReport(liabilities) ==
    LET atFault == MergedAtFault(liabilities)
    IN  [atFault |-> atFault,
         faultPercentages |-> MergedFaultPercentages(liabilities, atFault),
         rationale |-> Join(UniquePoints(liabilities), "\n"),
         hasPoliceReport |-> \A k \in 1..Len(liabilities) : liabilities[k].hasPoliceReport,
         evidence |-> Arr(<<>>)]

\* mergeLiability, lines 32-90
mergeLiability(liabilities) ==
    LET atFault == MergedAtFault(liabilities)
    IN  [atFault |-> atFault,
         faultPercentages |-> MergedFaultPercentages(liabilities, atFault),
         rationale |-> Join(UniquePoints(liabilities), "\n"),
         hasPoliceReport |-> \E k \in 1..Len(liabilities) : liabilities[k].hasPoliceReport,
         evidence |-> Arr(<<>>)]

\* line 99
severityOrder == [low |-> 1, medium |-> 2, high |-> 3]

\* variant: the overall severity of the last chunk
MaxSeverityOfLast(damages, max) ==
    IF damages = <<>> THEN max ELSE damages[Len(damages)].severity

\* lines 100-104: damages.reduce(..., "low")
RECURSIVE MaxSeverity(_, _)
MaxSeverity(damages, max) ==
    IF damages = <<>> THEN max
    ELSE MaxSeverity(Tail(damages),
                     IF severityOrder[Head(damages).severity] > severityOrder[max]
                     THEN Head(damages).severity ELSE max)

\* variant: descriptions are compared with their case kept
IndicationKeyCaseSensitive(indication) == Trim(indication.description)

\* line 110
IndicationKey(indication) == Trim(ToLowerCase(indication.description))

\* mergeDamages, lines 95-124
mergeDamages(damages) ==
    LET allIndications == Flat(MapProp(damages, "indications"))
    IN  [severity |-> MaxSeverity(damages, "low"),
         indications |->
             FirstOccurrences(allIndications,
                              [k \in 1..Len(allIndications) |->
                                  IndicationKey(allIndications[k])],
                              {})]

CoverageFields ==
    {"clientHasInsurance", "clientInsuranceProvider", "clientPolicyNumber",
     "clientCoverageEffectiveDate", "clientCoverageExpirationDate",
     "clientCoverageDetails", "otherPartyHasInsurance",
     "otherPartyInsuranceProvider", "otherPartyPolicyNumber",
     "otherPartyCoverageEffectiveDate", "otherPartyCoverageExpirationDate",
     "otherPartyCoverageDetails", "medicalCoverageAvailable",
     "medicalCoverageDetails", "underinsuredMotoristCoverage", "policyLimits",
     "notes"}

\* the reducer of lines 132-168: every field is curr.field ?? acc.field
CoverageReducer(acc, curr) ==
    [field \in CoverageFields |-> NullishCoalesce(Prop(curr, field), Prop(acc, field))]

\* coverages.reduce(reducer) without an initial value: the first element
\* starts the accumulation
RECURSIVE ReduceCoverage(_, _)
ReduceCoverage(acc, rest) ==
    IF rest = <<>> THEN acc
    ELSE ReduceCoverage(CoverageReducer(acc, Head(rest)), Tail(rest))

\* mergeCoverage, lines 129-171
mergeCoverage(coverages) == ReduceCoverage(Head(coverages), Tail(coverages))

\* what a call does: it returns a value or throws an Error
Returns(value) == [threw |-> FALSE, value |-> value]
Throws(message) == [threw |-> TRUE, message |-> message]
NotCalled == [pending |-> TRUE]

\* variant: fewer than two extractions are refused
mergeChunkExtractionsRequiresTwo(exts) ==
    IF Len(exts) < 2 THEN Throws("No extractions to merge")
    ELSE Returns([clientInfo |-> mergeClientInfo(MapProp(exts, "clientInfo")),
                  liability |-> mergeLiability(MapProp(exts, "liability")),
                  damages |-> mergeDamages(MapProp(exts, "damages")),
                  coverage |-> mergeCoverage(MapProp(exts, "coverage"))])

\* variant: a single extraction is merged like any other list
mergeChunkExtractionsAlwaysMerges(exts) ==
    IF Len(exts) = 0 THEN Throws("No extractions to merge")
    ELSE Returns([clientInfo |-> mergeClientInfo(MapProp(exts, "clientInfo")),
                  liability |-> mergeLiability(MapProp(exts, "liability")),
                  damages |-> mergeDamages(MapProp(exts, "damages")),
                  coverage |-> mergeCoverage(MapProp(exts, "coverage"))])

\* mergeChunkExtractions, lines 176-200
mergeChunkExtractions(exts) ==
    IF Len(exts) = 0 THEN Throws("No extractions to merge")
    ELSE IF Len(exts) = 1 THEN Returns(exts[1])
    ELSE Returns([clientInfo |-> mergeClientInfo(MapProp(exts, "clientInfo")),
                  liability |-> mergeLiability(MapProp(exts, "liability")),
                  damages |-> mergeDamages(MapProp(exts, "damages")),
                  coverage |-> mergeCoverage(MapProp(exts, "coverage"))])

----------------------------------------------------------------------------
(* Token estimator *)

\* Math.ceil(text.length * 0.25)
estimateTokens(text) == (Len(text) + CharsPerToken - 1) \div CharsPerToken

\* Math.floor(tokens / 0.25)
estimateCharactersForTokens(tokens) == tokens * CharsPerToken

----------------------------------------------------------------------------
(* findChunkEnd *)

\* index of the first non-whitespace character of w at or after k (Len(w) if none)
RECURSIVE SkipWhiteSpace(_, _)
SkipWhiteSpace(w, k) ==
    IF k < Len(w) /\ CharAt(w, k) \in WhiteSpace THEN SkipWhiteSpace(w, k + 1)
    ELSE k

\* /[.!?]\s+(?=[A-Z])/ matches at index k of w
SentenceMatchAt(w, k) ==
    /\ k < Len(w)
    /\ CharAt(w, k) \in SentencePunct
    /\ SkipWhiteSpace(w, k + 1) > k + 1
    /\ SkipWhiteSpace(w, k + 1) < Len(w)
    /\ CharAt(w, SkipWhiteSpace(w, k + 1)) \in UpperCase

\* sentenceRegex.exec(w) with sentenceRegex.lastIndex = from: the index of the
\* first match at or after from, or -1 (null)
SentenceExec(w, from) ==
    LET found == {k \in from..(Len(w) - 1) : SentenceMatchAt(w, k)}
    IN  IF found = {} THEN -1
        ELSE CHOOSE k \in found : \A m \in found : k <= m

\* while ((match = sentenceRegex.exec(textWindow)) !== null) lastMatch = match.index
\* A match consumes the punctuation and the whitespace after it (the
\* look-ahead consumes nothing), and lastIndex moves past what was consumed.
RECURSIVE SentenceExecLoop(_, _, _)
SentenceExecLoop(w, from, lastMatch) ==
    LET match == SentenceExec(w, from)
    IN  IF match = -1 THEN lastMatch
        ELSE SentenceExecLoop(w, SkipWhiteSpace(w, match + 1), match)

\* variant: the candidate end one character past the budget
CandidateEndOffByOne(text, start, maxTokens) ==
    Min(start + maxTokens * CharsPerToken + 1, Len(text))

\* the candidate end: Math.min(start + estimatedChars, text.length)
CandidateEnd(text, start, maxTokens) ==
    Min(start + maxTokens * CharsPerToken, Len(text))

\* Math.max(start, endPosition - 200)
SearchWindow(start, endPosition) == Max(start, endPosition - LookbackChars)

\* variant: the word boundary is tried before the sentence end
findChunkEndWordFirst(text, start, maxTokens) ==
    LET endPosition == Min(start + maxTokens * CharsPerToken, Len(text))
        searchWindow == Max(start, endPosition - LookbackChars)
        textWindow == Substring(text, searchWindow, endPosition)
        speakerMatch == LastIndexOf(textWindow, "\n[Speaker ")
        paragraphMatch == LastIndexOf(textWindow, "\n\n")
        lastMatch == SentenceExecLoop(textWindow, 0, -1)
        wordMatch == LastIndexOf(textWindow, " ")
    IN  IF endPosition >= Len(text) THEN Len(text)
        ELSE IF speakerMatch # -1 THEN searchWindow + speakerMatch
        ELSE IF paragraphMatch # -1 THEN searchWindow + paragraphMatch
        ELSE IF wordMatch # -1 THEN searchWindow + wordMatch
        ELSE IF lastMatch # -1 THEN searchWindow + lastMatch + 1
        ELSE endPosition

findChunkEnd(text, start, maxTokens) ==
    LET endPosition == CandidateEnd(text, start, maxTokens)
        searchWindow == SearchWindow(start, endPosition)
        textWindow == Substring(text, searchWindow, endPosition)
        speakerMatch == LastIndexOf(textWindow, "\n[Speaker ")
        paragraphMatch == LastIndexOf(textWindow, "\n\n")
        lastMatch == SentenceExecLoop(textWindow, 0, -1)
        wordMatch == LastIndexOf(textWindow, " ")
    IN  IF endPosition >= Len(text) THEN Len(text)
        ELSE IF speakerMatch # -1 THEN searchWindow + speakerMatch
        ELSE IF paragraphMatch # -1 THEN searchWindow + paragraphMatch
        ELSE IF lastMatch # -1 THEN searchWindow + lastMatch + 1
        ELSE IF wordMatch # -1 THEN searchWindow + wordMatch
        ELSE endPosition

----------------------------------------------------------------------------
(* chunkTranscript *)

\* `[Speaker ${seg.speaker}]: ${seg.content}`
RenderSegment(seg) ==
    "[Speaker " \o NumberToString(seg.speaker) \o "]: " \o seg.content

\* variant: segments joined by a single newline
FlattenTextSingleNewline(segments) ==
    Join([k \in 1..Len(segments) |-> RenderSegment(segments[k])], "\n")

\* transcript.segments.map(...).join("\n\n")
FlattenText(segments) ==
    Join([k \in 1..Len(segments) |-> RenderSegment(segments[k])], "\n\n")

\* chunkTranscript, lines 403-437: flatten, estimate, single-chunk return or
\* entry into the chunking loop
ChunkTranscriptEntry ==
    /\ cpc = "start"
    /\ LET text == FlattenText(transcript)
       IN  /\ fullText' = text
           /\ IF estimateTokens(text) <= maxChunkTokens
              THEN /\ chunks' = <<text>>
                   /\ spans' = <<<<0, Len(text)>>>>
                   /\ cpc' = "done"
              ELSE /\ chunks' = <<>>
                   /\ spans' = <<>>
                   /\ cpc' = "loop"
    /\ currentPosition' = 0
    /\ UNCHANGED <<transcript, maxChunkTokens, overlapTokens>>
    /\ UNCHANGED processorVars

\* variant: the progress fallback steps one character past the chunk end
NextCursorSkipping(current, chunkEndPosition, overlap) ==
    LET nextPosition == chunkEndPosition - estimateCharactersForTokens(overlap)
    IN  IF nextPosition <= current THEN chunkEndPosition + 1 ELSE nextPosition

\* the cursor after one iteration: nextPosition unless it makes no progress
NextCursor(current, chunkEndPosition, overlap) ==
    LET nextPosition == chunkEndPosition - estimateCharactersForTokens(overlap)
    IN  IF nextPosition <= current THEN chunkEndPosition ELSE nextPosition

\* one iteration of while (currentPosition < fullText.length), lines 439-479
ChunkLoopStep ==
    /\ cpc = "loop"
    /\ currentPosition < Len(fullText)
    /\ Len(chunks) < MaxChunkCount
    /\ LET chunkEndPosition == findChunkEnd(fullText, currentPosition, maxChunkTokens)
       IN  /\ chunks' = Append(chunks, Substring(fullText, currentPosition, chunkEndPosition))
           /\ spans' = Append(spans, <<currentPosition, chunkEndPosition>>)
           /\ currentPosition' = NextCursor(currentPosition, chunkEndPosition, overlapTokens)
    /\ UNCHANGED <<transcript, maxChunkTokens, overlapTokens, fullText, cpc>>
    /\ UNCHANGED processorVars

\* the loop condition fails: return chunks, lines 481-484
ChunkLoopExit ==
    /\ cpc = "loop"
    /\ currentPosition >= Len(fullText)
    /\ cpc' = "done"
    /\ UNCHANGED <<transcript, maxChunkTokens, overlapTokens, fullText, chunks,
                   currentPosition, spans>>
    /\ UNCHANGED processorVars

----------------------------------------------------------------------------
(* Inputs of chunkTranscript *)

\* s.repeat(n)
RECURSIVE Repeat(_, _)
Repeat(s, n) ==
    IF n = 0 THEN ""
    ELSE LET half == Repeat(s, n \div 2)
         IN  IF n % 2 = 0 THEN half \o half ELSE half \o half \o s

RECURSIVE SeqsUpTo(_, _)
SeqsUpTo(S, n) ==
    IF n = 0 THEN {<<>>}
    ELSE LET shorter == SeqsUpTo(S, n - 1)
         IN  shorter \cup {Append(q, e) : q \in {r \in shorter : Len(r) = n - 1}, e \in S}

Speakers == {0, 12}
ShortContents == {"wxyz", "Hi. Ok ab", "a\n\nb c.  D"}
ShortSegments == [speaker : Speakers, content : ShortContents]

\* transcripts long enough for the candidate end to lie more than
\* LookbackChars past the cursor
LongTranscripts ==
    { <<[speaker |-> 0, content |-> Repeat("abcdefghij", 30)]>>,
      <<[speaker |-> 1, content |-> Repeat("word ", 50) \o Repeat("x", 150)]>>,
      <<[speaker |-> 0, content |-> Repeat("x", 100) \o "It was. Then " \o Repeat("y ", 40)
                                     \o Repeat("z", 130)]>>,
      <<[speaker |-> 0, content |-> Repeat("x", 80) \o "Stop! Go\n\nnow. " \o Repeat("q", 95)],
        [speaker |-> 1, content |-> Repeat("ok ", 10) \o Repeat("r", 200)]>> }
LongTokenBudgets == {51, 60}
LongOverlaps == {0, 10, 60}

\* budgets for the short transcripts: the small ones force many chunks, the
\* two large ones let a two-segment transcript fit into a single chunk
ShortTokenBudgets == (1..MaxTokens) \cup {10, 12}

ChunkerInputs ==
    (SeqsUpTo(ShortSegments, MaxSegments) \X ShortTokenBudgets \X (0..MaxOverlap))
    \cup (LongTranscripts \X LongTokenBudgets \X LongOverlaps)

ProcessorIdle ==
    /\ MAX_RETRIES = 0
    /\ numChunks = 0
    /\ i = 0
    /\ attempt = 0
    /\ stale = EmptyBag
    /\ settled = {}
    /\ extractions = <<>>
    /\ mergeInput = <<>>
    /\ dispatched = {}
    /\ failedAttempts = {}
    /\ ppc = "idle"
    /\ segmentsWithTurnIds = Undefined
    /\ chunksWithTurns = <<>>
    /\ passedTurns = {}
    /\ merged = NotCalled

InitChunker ==
    /\ \E in \in ChunkerInputs :
          /\ transcript = in[1]
          /\ maxChunkTokens = in[2]
          /\ overlapTokens = in[3]
    /\ fullText = ""
    /\ chunks = <<>>
    /\ currentPosition = 0
    /\ spans = <<>>
    /\ cpc = "start"
    /\ ProcessorIdle

NextChunker == ChunkTranscriptEntry \/ ChunkLoopStep \/ ChunkLoopExit

SpecChunker == InitChunker /\ [][NextChunker]_vars

----------------------------------------------------------------------------
(* Properties of the chunker *)

MultiChunkPath == cpc # "start" /\ estimateTokens(fullText) > maxChunkTokens

\* C6: chunkTranscript terminates for every transcript, maxTokensPerChunk >= 1
\* and overlapTokens >= 0.  The loop is a deterministic function of the cursor,
\* so it terminates exactly when every iteration moves the cursor strictly
\* forward; this states that every iteration does.
C6_CursorAdvances ==
    [][ChunkLoopStep => currentPosition' > currentPosition]_vars

\* the flattened text rebuilt from the chunk strings: each chunk contributes
\* the part that lies beyond what the chunks before it already covered
RECURSIVE Reconstruct(_, _, _)
Reconstruct(k, covered, acc) ==
    IF k > Len(chunks) THEN acc
    ELSE IF spans[k][2] > covered
         THEN Reconstruct(k + 1, spans[k][2],
                          acc \o Substring(chunks[k], covered - spans[k][1], Len(chunks[k])))
         ELSE Reconstruct(k + 1, covered, acc)

\* C7: the returned chunks cover the flattened text without gaps: the first
\* starts at 0, every later one starts at or before the end of the previous
\* one, the last ends at the end of the text, and the non-overlapping portions
\* concatenate to the flattened text.
C7_ChunkCoverage ==
    cpc = "done" =>
        /\ Len(chunks) >= 1
        /\ Len(spans) = Len(chunks)
        /\ spans[1][1] = 0
        /\ \A k \in 2..Len(spans) : spans[k][1] <= spans[k - 1][2]
        /\ spans[Len(spans)][2] = Len(fullText)
        /\ \A k \in 1..Len(chunks) : Len(chunks[k]) = spans[k][2] - spans[k][1]
        /\ Reconstruct(1, 0, "") = fullText

C7_Witness ==
    /\ cpc = "done"
    /\ Len(chunks) >= 3
    /\ spans[2][1] < spans[1][2]
    /\ spans[3][1] = spans[2][2]

\* the rendering the specification describes: one speaker-tagged line per
\* segment, lines separated by a blank line
RECURSIVE SpeakerTaggedLines(_)
SpeakerTaggedLines(segments) ==
    IF segments = <<>> THEN ""
    ELSE LET n == Len(segments)
             line == "[Speaker " \o ToString(segments[n].speaker) \o "]: "
                        \o segments[n].content
         IN  IF n = 1 THEN line
             ELSE SpeakerTaggedLines(SubSeq(segments, 1, n - 1)) \o "\n\n" \o line

\* C8: a transcript whose flattened text has estimateTokens(text) <=
\* maxTokensPerChunk yields exactly one chunk, the whole flattened text.
C8_SingleChunkIdentity ==
    (cpc = "done" /\ estimateTokens(SpeakerTaggedLines(transcript)) <= maxChunkTokens)
        => chunks = <<SpeakerTaggedLines(transcript)>>

C8_Witness ==
    /\ cpc = "done"
    /\ Len(transcript) = 2
    /\ transcript[2].speaker = 12
    /\ estimateTokens(SpeakerTaggedLines(transcript)) = maxChunkTokens
    /\ chunks = <<fullText>>

\* C9: every chunk is at most estimateCharactersForTokens(maxTokensPerChunk)
\* characters long, hence estimateTokens(chunk) <= maxTokensPerChunk, on the
\* single-chunk and on the multi-chunk path.
C9_ChunkWithinBudget ==
    \A k \in 1..Len(chunks) :
        /\ Len(chunks[k]) <= estimateCharactersForTokens(maxChunkTokens)
        /\ estimateTokens(chunks[k]) <= maxChunkTokens

C9_Witness ==
    /\ MultiChunkPath
    /\ cpc = "done"
    /\ \E k \in 1..Len(chunks) : Len(chunks[k]) = maxChunkTokens * CharsPerToken
    /\ \E k \in 1..Len(chunks) : 0 < Len(chunks[k]) /\ Len(chunks[k]) < maxChunkTokens * CharsPerToken

\* The last call of findChunkEnd on the multi-chunk path, as the claim sees it:
\* its cursor, its candidate end, the lookback window and the break points
\* that lie wholly inside the window.
LastCursor == spans[Len(spans)][1]
LastEnd == spans[Len(spans)][2]
LastCandidate == Min(LastCursor + estimateCharactersForTokens(maxChunkTokens), Len(fullText))
WindowLow == Max(LastCursor, LastCandidate - LookbackChars)
WindowSpeakerMarkers ==
    {p \in WindowLow..(LastCandidate - 10) : Substring(fullText, p, p + 10) = "\n[Speaker "}
WindowParagraphBreaks ==
    {p \in WindowLow..(LastCandidate - 2) : Substring(fullText, p, p + 2) = "\n\n"}
WindowSentenceEnds ==
    {p \in WindowLow..(LastCandidate - 1) :
        /\ CharAt(fullText, p) \in SentencePunct
        /\ \E q \in (p + 2)..(LastCandidate - 1) :
              /\ CharAt(fullText, q) \in UpperCase
              /\ \A r \in (p + 1)..(q - 1) : CharAt(fullText, r) \in WhiteSpace}
WindowSpaces ==
    {p \in WindowLow..(LastCandidate - 1) : CharAt(fullText, p) = " "}
Last(S) == CHOOSE x \in S : \A y \in S : y <= x

FoundBreak == MultiChunkPath /\ Len(spans) >= 1 /\ LastCandidate < Len(fullText)

\* C10: when the candidate end is before the end of the text, findChunkEnd
\* returns a position inside [max(cursor, candidate - 200), candidate] chosen by
\* strict priority: last speaker-turn marker, else last paragraph break, else
\* just after the last sentence end followed by whitespace and a capital, else
\* the last space, else the candidate itself.  A break point is in the window
\* when the whole pattern that marks it lies in the window's text.
C10_BreakPriority ==
    FoundBreak =>
        /\ WindowLow <= LastEnd
        /\ LastEnd <= LastCandidate
        /\ LastEnd = IF WindowSpeakerMarkers # {} THEN Last(WindowSpeakerMarkers)
                     ELSE IF WindowParagraphBreaks # {} THEN Last(WindowParagraphBreaks)
                     ELSE IF WindowSentenceEnds # {} THEN Last(WindowSentenceEnds) + 1
                     ELSE IF WindowSpaces # {} THEN Last(WindowSpaces)
                     ELSE LastCandidate

\* a sentence end is chosen although a later space lies in the window, with
\* the window starting LookbackChars before the candidate
C10_Witness ==
    /\ FoundBreak
    /\ WindowLow = LastCandidate - LookbackChars
    /\ WindowLow > LastCursor
    /\ WindowSpeakerMarkers = {}
    /\ WindowParagraphBreaks = {}
    /\ WindowSentenceEnds # {}
    /\ \E p \in WindowSpaces : p > Last(WindowSentenceEnds) + 1
    /\ LastEnd = Last(WindowSentenceEnds) + 1

----------------------------------------------------------------------------
(* extractFromChunkParallel and processTranscript *)

MAX_CHUNK_TOKENS == 30000   \* AI_CONFIG.MAX_CHUNK_TOKENS
OVERLAP_TOKENS == 2000      \* AI_CONFIG.OVERLAP_TOKENS
ShippedMaxRetries == 2      \* AI_CONFIG.MAX_RETRIES as shipped

Sections == {"clientInfo", "liability", "damages", "coverage"}

\* one generateObject call: the section asked of a chunk in one attempt
Call(chunk, att, section) == [chunk |-> chunk, attempt |-> att, section |-> section]

\* the array handed to Promise.all by one call of extractFromChunkParallel:
\* the generateObject calls are all started before Promise.all is awaited
ParallelCalls(chunk, att) == {Call(chunk, att, section) : section \in Sections}

\* the object the language model answers to a call.  It is a fresh object per
\* call (from is its identity); its content is fixed per chunk and attempt
\* here, with the optional properties mostly left out; the merger below is
\* given varied contents.  The first chunk holds the facts of the case and
\* the later chunks add none; a second attempt words its answer differently
BackendAnswer(call) ==
    [from |-> call] @@
    CASE call.section = "clientInfo" ->
             [caseType |-> Str("mva"),
              clientName |-> IF call.chunk = 1 THEN Str("Ann Lee") ELSE Null,
              clientDob |-> Null, clientPhone |-> Null, clientEmail |-> Null,
              clientAddress |-> Null, incidentDate |-> Null,
              incidentLocation |-> Null]
             @@ (IF call.attempt = 2 THEN [brief |-> Str("Rear-end crash.")]
                 ELSE [caseType |-> Str("mva")])
      [] call.section = "liability" ->
             [atFault |-> IF call.chunk = 1 THEN "other_party" ELSE "unclear",
              rationale |-> IF call.attempt = 2 THEN "Summary\n- Client was rear-ended"
                            ELSE "- Client was rear-ended",
              hasPoliceReport |-> call.attempt = 2,
              evidence |-> Arr(<<>>)]
      [] call.section = "damages" ->
             [severity |-> "medium",
              indications |-> <<[description |-> "Whiplash", severity |-> "medium"]>>]
      [] call.section = "coverage" ->
             [clientHasInsurance |-> IF call.chunk = 1 THEN Bool(TRUE) ELSE Null,
              otherPartyHasInsurance |-> Null,
              medicalCoverageAvailable |-> Null,
              underinsuredMotoristCoverage |-> Null]

\* result.object of a fulfilled call
ResultObject(call) == BackendAnswer(call)

\* variant: the client info of the first attempt is kept across a retry
BuildExtractionMixed(chunk, att) ==
    [section \in Sections |->
        IF section = "clientInfo" THEN ResultObject(Call(chunk, 1, section))
        ELSE ResultObject(Call(chunk, att, section))]

\* the ChunkExtraction returned when Promise.all fulfils: every section comes
\* from the result array of this one call of extractFromChunkParallel
BuildExtraction(chunk, att) ==
    [section \in Sections |-> ResultObject(Call(chunk, att, section))]

\* variant: the extraction is put in front of the list
PushExtractionFront(exts, extraction) == <<extraction>> \o exts

\* extractions.push(extraction)
PushExtraction(exts, extraction) == Append(exts, extraction)

\* chunkText.includes(content)
Includes(text, pat) ==
    \E k \in 0..(Len(text) - Len(pat)) : Substring(text, k, k + Len(pat)) = pat

\* variant: every supplied turn goes to every chunk
RECURSIVE TurnsInChunkAll(_, _)
TurnsInChunkAll(chunkText, segs) ==
    IF segs = <<>> THEN <<>>
    ELSE <<[turnId |-> Head(segs).turnId,
            speaker |-> Head(segs).speaker,
            content |-> Head(segs).content]>>
         \o TurnsInChunkAll(chunkText, Tail(segs))

\* lines 51-62: the loop over segmentsWithTurnIds for one chunk
RECURSIVE TurnsInChunk(_, _)
TurnsInChunk(chunkText, segs) ==
    IF segs = <<>> THEN <<>>
    ELSE (IF Includes(chunkText, Head(segs).content)
          THEN <<[turnId |-> Head(segs).turnId,
                  speaker |-> Head(segs).speaker,
                  content |-> Head(segs).content]>>
          ELSE <<>>)
         \o TurnsInChunk(chunkText, Tail(segs))

\* lines 39-78: chunksWithTurns built from the chunks and the optional turns
MapTurnsToChunks(chunkList, segs) ==
    IF Truthy(segs) /\ Len(segs.v) > 0
    THEN [k \in 1..Len(chunkList) |->
             [chunk |-> chunkList[k], turns |-> TurnsInChunk(chunkList[k], segs.v)]]
    ELSE [k \in 1..Len(chunkList) |-> [chunk |-> chunkList[k], turns |-> <<>>]]

\* what chunkTranscript returned (line 27): overlapping pieces of a dialogue
ReturnedChunks(n) ==
    [k \in 1..n |-> IF k % 2 = 1
                    THEN "Speaker 0: Hi\n\nSpeaker 1: I was hit"
                    ELSE "Speaker 1: I was hit\n\nSpeaker 0: Which car"]

\* processTranscript suspended at `await extractFromChunkParallel(...)` for
\* chunk number chunk, attempt att, with exts collected so far; left are the
\* calls of earlier attempts that are still in flight when the four new calls
\* are started
AwaitAttempt(chunk, att, exts, left) ==
    /\ i' = chunk
    /\ attempt' = att
    /\ stale' = left
    /\ dispatched' = dispatched \cup ParallelCalls(chunk, att)
    /\ settled' = {}
    /\ extractions' = exts
    /\ ppc' = "await"
    /\ passedTurns' = passedTurns \cup
          {[chunk |-> chunk, attempt |-> att, turns |-> chunksWithTurns'[chunk].turns]}
    /\ UNCHANGED <<mergeInput, merged>>

\* variant: throw as soon as one chunk is missing
FinishProcessingStrict(exts, left) ==
    /\ extractions' = exts
    /\ IF Len(exts) < numChunks
       THEN /\ ppc' = "thrown"
            /\ UNCHANGED <<mergeInput, merged>>
       ELSE /\ ppc' = "returned"
            /\ mergeInput' = exts
            /\ merged' = mergeChunkExtractions(exts)
    /\ stale' = left
    /\ settled' = {}
    /\ UNCHANGED <<i, attempt, dispatched, passedTurns>>

\* lines 125-138 and 178-186: throw when nothing was extracted, else merge
FinishProcessing(exts, left) ==
    /\ extractions' = exts
    /\ IF Len(exts) = 0
       THEN /\ ppc' = "thrown"
            /\ UNCHANGED <<mergeInput, merged>>
       ELSE /\ ppc' = "returned"
            /\ mergeInput' = exts
            /\ merged' = mergeChunkExtractions(exts)
    /\ stale' = left
    /\ settled' = {}
    /\ UNCHANGED <<i, attempt, dispatched, passedTurns>>

\* the for loop moves to the next chunk, or ends (lines 86, 123)
NextChunkOrFinish(exts, left) ==
    IF i < numChunks
    THEN AwaitAttempt(i + 1, 1, exts, left)
    ELSE FinishProcessing(exts, left)

\* the budget test of the catch block, line 104
RetryAllowed(att, budget) == att = 1 /\ budget > 0

\* the sections of the awaited attempt whose calls are still in flight
PendingSections == IF ppc = "await" THEN Sections \ settled ELSE {}

\* the calls of the awaited attempt left in flight when one of them rejects
Abandoned(rejectedSection) ==
    LET n == Cardinality(PendingSections \ {rejectedSection})
    IN  IF n = 0 THEN EmptyBag ELSE [a \in {<<i, attempt>>} |-> n]

\* processTranscript up to its first await: chunking, turn mapping and the
\* dispatch of the first chunk's four calls (lines 25-97)
ProcessStart ==
    /\ ppc = "start"
    /\ chunksWithTurns' = MapTurnsToChunks(ReturnedChunks(numChunks), segmentsWithTurnIds)
    /\ AwaitAttempt(1, 1, <<>>, EmptyBag)
    /\ UNCHANGED <<MAX_RETRIES, segmentsWithTurnIds, numChunks, failedAttempts>>
    /\ UNCHANGED chunkerVars

\* one of the awaited calls fulfils while others are still pending: its .then
\* logs, Promise.all keeps waiting
SectionFulfilled(section) ==
    /\ section \in PendingSections
    /\ settled \cup {section} # Sections
    /\ settled' = settled \cup {section}
    /\ UNCHANGED <<MAX_RETRIES, segmentsWithTurnIds, chunksWithTurns, numChunks,
                   i, attempt, stale, extractions, mergeInput, merged,
                   passedTurns, dispatched, failedAttempts, ppc>>
    /\ UNCHANGED chunkerVars

\* the last of the four awaited calls fulfils: Promise.all fulfils,
\* extractFromChunkParallel returns and processTranscript resumes in the same
\* turn, pushes the extraction and goes on (lines 98-99 or 113-114)
AttemptResolved(section) ==
    /\ section \in PendingSections
    /\ settled \cup {section} = Sections
    /\ UNCHANGED <<segmentsWithTurnIds, chunksWithTurns>>
    /\ NextChunkOrFinish(PushExtraction(extractions, BuildExtraction(i, attempt)), stale)
    /\ UNCHANGED <<MAX_RETRIES, numChunks, failedAttempts>>
    /\ UNCHANGED chunkerVars

\* one of the awaited calls rejects: Promise.all rejects at once, whatever the
\* other calls are doing; the catch of extractFromChunkParallel rethrows and
\* processTranscript resumes in its catch block in the same turn: retry
\* (lines 104-112) or skip (lines 115-122)
AttemptRejected(section) ==
    /\ section \in PendingSections
    /\ UNCHANGED <<segmentsWithTurnIds, chunksWithTurns>>
    /\ failedAttempts' = failedAttempts \cup {<<i, attempt>>}
    /\ IF RetryAllowed(attempt, MAX_RETRIES)
       THEN AwaitAttempt(i, 2, extractions, stale (+) Abandoned(section))
       ELSE NextChunkOrFinish(extractions, stale (+) Abandoned(section))
    /\ UNCHANGED <<MAX_RETRIES, numChunks>>
    /\ UNCHANGED chunkerVars

\* a call nobody awaits any more (its attempt was abandoned when a sibling
\* rejected) returns or fails; its result is dropped
StaleCallSettles(att) ==
    /\ BagIn(att, stale)
    /\ stale' = stale (-) SetToBag({att})
    /\ UNCHANGED <<MAX_RETRIES, segmentsWithTurnIds, chunksWithTurns, numChunks,
                   i, attempt, settled, extractions, mergeInput, merged,
                   passedTurns, dispatched, failedAttempts, ppc>>
    /\ UNCHANGED chunkerVars

ChunkerIdle ==
    /\ transcript = <<>>
    /\ maxChunkTokens = MAX_CHUNK_TOKENS
    /\ overlapTokens = OVERLAP_TOKENS
    /\ fullText = ""
    /\ chunks = <<>>
    /\ currentPosition = 0
    /\ spans = <<>>
    /\ cpc = "idle"

\* the turns a caller may supply: none, an empty list, or the turns of the
\* dialogue out of order and with a repeat; the first chunk holds turns 1 and
\* 2 whole, every chunk holds turn 2, turn 3 is cut by the chunk boundary
Turn(turnId, speaker, content) ==
    [turnId |-> turnId, speaker |-> speaker, content |-> content]
TurnInputs ==
    {Undefined,
     Arr(<<>>),
     Arr(<<Turn(3, 0, "Which car was it"), Turn(2, 1, "I was hit"),
           Turn(1, 0, "Hi"), Turn(2, 1, "I was hit")>>)}

\* the retry budget is configuration: every budget is tried without turns,
\* and every turn input with the budget that is shipped
ProcessorInputs ==
    ((0..MaxRetryBudget) \X {Undefined}) \cup ({ShippedMaxRetries} \X TurnInputs)

\* chunkTranscript returns at least one chunk
Init ==
    /\ \E in \in ProcessorInputs :
          /\ MAX_RETRIES = in[1]
          /\ segmentsWithTurnIds = in[2]
    /\ chunksWithTurns = <<>>
    /\ passedTurns = {}
    /\ merged = NotCalled
    /\ numChunks \in 1..MaxChunks
    /\ i = 0
    /\ attempt = 0
    /\ stale = EmptyBag
    /\ settled = {}
    /\ extractions = <<>>
    /\ mergeInput = <<>>
    /\ dispatched = {}
    /\ failedAttempts = {}
    /\ ppc = "start"
    /\ ChunkerIdle

Next ==
    \/ ProcessStart
    \/ \E section \in Sections : SectionFulfilled(section)
    \/ \E section \in Sections : AttemptResolved(section)
    \/ \E section \in Sections : AttemptRejected(section)
    \/ \E att \in BagToSet(stale) : StaleCallSettles(att)

Spec == Init /\ [][Next]_vars

----------------------------------------------------------------------------
(* Properties of the orchestrator *)

Finished == ppc \in {"thrown", "returned"}

\* the attempts made on a chunk, read off the calls that were dispatched
AttemptsOn(chunk) == {call.attempt : call \in {d \in dispatched : d.chunk = chunk}}

\* an attempt succeeded when it was made, is no longer awaited and none of
\* its calls rejected
Succeeded(chunk, att) ==
    /\ att \in AttemptsOn(chunk)
    /\ <<chunk, att>> \notin failedAttempts
    /\ ~(ppc = "await" /\ i = chunk /\ attempt = att)

ChunkSucceeded(chunk) == \E att \in AttemptsOn(chunk) : Succeeded(chunk, att)

\* what the backend answered to the four calls of one attempt
AnswersOf(chunk, att) ==
    [section \in Sections |->
        BackendAnswer([chunk |-> chunk, attempt |-> att, section |-> section])]

\* the answers of the successful chunks, in transcript order
RECURSIVE SuccessfulExtractions(_)
SuccessfulExtractions(n) ==
    IF n = 0 THEN <<>>
    ELSE IF ChunkSucceeded(n)
         THEN Append(SuccessfulExtractions(n - 1),
                     AnswersOf(n, CHOOSE att \in AttemptsOn(n) : Succeeded(n, att)))
         ELSE SuccessfulExtractions(n - 1)

\* C1: processTranscript throws iff every chunk failed all of its attempts;
\* when at least one chunk succeeded it returns the merge of exactly the
\* successful chunks' extractions; a skipped chunk never prevents a later
\* chunk from being attempted.
C1_ThrowsIffAllChunksFailed ==
    /\ ppc = "thrown" => \A k \in 1..numChunks : ~ChunkSucceeded(k)
    /\ ppc = "returned" =>
          /\ \E k \in 1..numChunks : ChunkSucceeded(k)
          /\ mergeInput = SuccessfulExtractions(numChunks)
    /\ Finished => \A k \in 1..numChunks : AttemptsOn(k) # {}

\* partial success: the first chunk was skipped, a later one was extracted
C1_Witness ==
    /\ ppc = "returned"
    /\ numChunks = 2
    /\ ~ChunkSucceeded(1)
    /\ Cardinality(AttemptsOn(1)) = 2
    /\ Succeeded(2, 2)
    /\ Len(mergeInput) = 1

\* C2: a chunk whose every attempt fails is attempted 1 + MAX_RETRIES times
\* before it is skipped, and is not retried at all when the budget is 0.
C2_RetriesUpToBudget ==
    Finished =>
        \A k \in 1..numChunks :
            ~ChunkSucceeded(k) => Cardinality(AttemptsOn(k)) = 1 + MAX_RETRIES

\* C3: chunks are processed strictly sequentially: while the four calls of an
\* attempt are awaited, no call dispatched by an earlier attempt is still in
\* flight.
C3_NoCallOfEarlierAttemptInFlight ==
    ppc = "await" => stale = EmptyBag

ChunkOf(extraction) == extraction["clientInfo"].from.chunk

\* C4: the list handed to mergeChunkExtractions is ordered by strictly
\* increasing chunk index: every chunk at most once and in transcript order.
C4_ExtractionsInTranscriptOrder ==
    /\ \A k \in 1..(Len(extractions) - 1) :
          ChunkOf(extractions[k]) < ChunkOf(extractions[k + 1])
    /\ ppc = "returned" => mergeInput = extractions

\* a retried chunk followed by a chunk extracted at once
C4_Witness ==
    /\ ppc = "returned"
    /\ Len(mergeInput) = 2
    /\ <<1, 1>> \in failedAttempts
    /\ mergeInput[1]["damages"].from.attempt = 2
    /\ mergeInput[2]["damages"].from.attempt = 1

\* C5: each attempt dispatches exactly the four section calls, and an
\* extraction is built from one attempt in which all four succeeded: its four
\* sections are the answers to the four calls of that one attempt.
C5_ExtractionFromOneCompleteAttempt ==
    /\ \A d \in dispatched :
          {e.section : e \in {c \in dispatched : c.chunk = d.chunk /\ c.attempt = d.attempt}}
              = {"clientInfo", "liability", "damages", "coverage"}
    /\ \A k \in 1..Len(extractions) :
          /\ DOMAIN extractions[k] = {"clientInfo", "liability", "damages", "coverage"}
          /\ \E att \in AttemptsOn(ChunkOf(extractions[k])) :
                /\ Succeeded(ChunkOf(extractions[k]), att)
                /\ extractions[k] = AnswersOf(ChunkOf(extractions[k]), att)

\* an extraction taken from a retry whose first attempt had already received
\* some of its sections
C5_Witness ==
    /\ Len(extractions) >= 1
    /\ <<1, 1>> \in failedAttempts
    /\ extractions[1] = AnswersOf(1, 2)
    /\ Cardinality(dispatched) >= 8

\* content occurs somewhere in text
IsSubstringOf(content, text) ==
    \E a \in 1..(Len(text) - Len(content) + 1) :
        SubSeq(text, a, a + Len(content) - 1) = content

\* the supplied turns whose content occurs in chunk k, in the supplied order
SuppliedTurnsWithin(k) ==
    IF segmentsWithTurnIds = Undefined THEN <<>>
    ELSE SelectSeq(segmentsWithTurnIds.v,
                   LAMBDA seg : IsSubstringOf(seg.content, ReturnedChunks(numChunks)[k]))

\* C11: when turn identifiers are supplied, the turns passed to the backend
\* with chunk k are exactly the supplied turns whose content is a substring of
\* the chunk's text, in the supplied order; when no turns are supplied (absent
\* or empty list) every chunk is passed an empty list.  Every call of
\* extractFromChunkParallel, first attempt or retry, is passed these turns.
C11_TurnsPassedWithChunk ==
    /\ \A call \in dispatched :
          \E p \in passedTurns : p.chunk = call.chunk /\ p.attempt = call.attempt
    /\ \A p \in passedTurns :
          /\ p.turns = SuppliedTurnsWithin(p.chunk)
          /\ segmentsWithTurnIds \in {Undefined, Arr(<<>>)} => p.turns = <<>>

\* turns were supplied out of order; the first chunk was retried and was
\* passed turns 2, 1, 2 both times, the second chunk was passed turn 2 twice
C11_Witness ==
    /\ segmentsWithTurnIds # Undefined
    /\ [chunk |-> 1, attempt |-> 2,
        turns |-> <<Turn(2, 1, "I was hit"), Turn(1, 0, "Hi"), Turn(2, 1, "I was hit")>>]
          \in passedTurns
    /\ [chunk |-> 2, attempt |-> 1,
        turns |-> <<Turn(2, 1, "I was hit"), Turn(2, 1, "I was hit")>>]
          \in passedTurns

\* C12: when exactly one chunk extraction reaches the merger, the result is
\* that chunk's four section values unchanged: mergeChunkExtractions returns
\* the element of a one-element list, and processTranscript returns exactly
\* what the backend answered for the one chunk that was extracted.
C12_SingleExtractionUnchanged ==
    (ppc = "returned" /\ Len(mergeInput) = 1) =>
        /\ merged = [threw |-> FALSE, value |-> mergeInput[1]]
        /\ \E k \in 1..numChunks :
              /\ ChunkSucceeded(k)
              /\ \A other \in 1..numChunks : ChunkSucceeded(other) => other = k
              /\ \E att \in AttemptsOn(k) :
                    /\ Succeeded(k, att)
                    /\ \A section \in Sections :
                          merged.value[section] =
                              BackendAnswer([chunk |-> k, attempt |-> att, section |-> section])

\* a transcript that fits in one chunk, extracted at the second attempt; its
\* rationale still has its line that is no bullet
C12_Witness ==
    /\ ppc = "returned"
    /\ numChunks = 1
    /\ merged.threw = FALSE
    /\ merged.value["liability"].rationale = "Summary\n- Client was rear-ended"
    /\ merged.value["liability"].hasPoliceReport

----------------------------------------------------------------------------
(* mergeChunkExtractions on its own: the chunk values a backend may answer *)

\* a ClientInfo whose scalar fields are all of one kind: absent, null, the
\* empty string, or one of two texts that name their field
ClientInfoKinds == {"absent", "null", "empty", "first", "second"}
ScalarOfKind(kind, field) ==
    CASE kind = "absent" -> Undefined
      [] kind = "null" -> Null
      [] kind = "empty" -> Str("")
      [] kind = "first" -> Str(field \o " 1")
      [] kind = "second" -> Str(field \o " 2")
ClientInfoOfKind(kind) ==
    [field \in ClientInfoScalars |-> ScalarOfKind(kind, field)]
        @@ [caseType |-> Str(IF kind = "second" THEN "dog_bites" ELSE "mva"),
            brief |-> ScalarOfKind(kind, "brief")]

Percentages(client, otherParty) == Obj([client |-> client, otherParty |-> otherParty])
FaultPercentagesInputs == {Undefined, Percentages(30, 70), Percentages(45, 55)}
AtFaultValues == {"client", "other_party", "shared", "unclear"}
RationaleInputs ==
    {"",
     "The client was not at fault.",
     "- speeding\n- ran a red light",
     "Summary:\n  * ran a red light  \n- speeding\n\n-  speeding"}

\* Liability values that LiabilitySchema accepts
FaultInputs ==
    {[atFault |-> a, faultPercentages |-> fp, rationale |-> "- speeding",
      hasPoliceReport |-> FALSE, evidence |-> Undefined] :
        a \in AtFaultValues, fp \in FaultPercentagesInputs}
RationaleAndReportInputs ==
    {[atFault |-> "unclear", faultPercentages |-> Undefined, rationale |-> r,
      hasPoliceReport |-> h, evidence |-> Arr(<<>>)] :
        r \in RationaleInputs, h \in BOOLEAN}

\* a Liability whose citations property is absent or holds Citation objects
Citation(field, turnIds) == [field |-> field, turnIds |-> turnIds]
CitedLiability(citations) ==
    [atFault |-> "other_party", faultPercentages |-> Undefined,
     rationale |-> "- speeding", hasPoliceReport |-> TRUE, evidence |-> Undefined,
     citations |-> citations]
CitedLiabilityInputs ==
    {CitedLiability(Undefined),
     CitedLiability(Arr(<<Citation("atFault", <<1, 2>>), Citation("hasPoliceReport", <<2>>)>>)),
     CitedLiability(Arr(<<Citation("atFault", <<3>>)>>))}

Indication(description, severity) ==
    [description |-> description, severity |-> severity, evidence |-> Undefined]
DamagesInputs ==
    {[severity |-> "low", indications |-> <<>>],
     [severity |-> "medium", indications |-> <<Indication("Whiplash", "medium")>>],
     [severity |-> "high",
      indications |-> <<Indication(" whiplash ", "low"), Indication("Broken arm", "high")>>],
     [severity |-> "medium",
      indications |-> <<Indication("Neck pain", "medium"), Indication("WHIPLASH", "high"),
                        Indication("neck pain ", "low")>>]}

\* a Coverage whose fields are all of one kind; the four booleans are
\* nullable but required, the strings may also be absent
CoverageKinds == {"absent", "null", "yes", "no"}
CoverageBooleans == {"clientHasInsurance", "otherPartyHasInsurance",
                     "medicalCoverageAvailable", "underinsuredMotoristCoverage"}
CoverageOfKind(kind) ==
    [field \in CoverageFields |->
        IF field \in CoverageBooleans
        THEN CASE kind = "yes" -> Bool(TRUE)
               [] kind = "no" -> Bool(FALSE)
               [] OTHER -> Null
        ELSE CASE kind = "absent" -> Undefined
               [] kind = "null" -> Null
               [] kind = "yes" -> Str(field \o " 1")
               [] kind = "no" -> Str("")]

DefaultExtraction ==
    [clientInfo |-> ClientInfoOfKind("null"),
     liability |-> [atFault |-> "unclear", faultPercentages |-> Undefined,
                    rationale |-> "", hasPoliceReport |-> FALSE, evidence |-> Undefined],
     damages |-> [severity |-> "low", indications |-> <<>>],
     coverage |-> CoverageOfKind("null")]

\* the values one section takes from chunk to chunk while the other three
\* sections keep their default
VaryingSections ==
    {[section |-> "clientInfo",
      values |-> {ClientInfoOfKind(kind) : kind \in ClientInfoKinds}],
     [section |-> "liability", values |-> FaultInputs],
     [section |-> "liability", values |-> RationaleAndReportInputs],
     [section |-> "liability", values |-> CitedLiabilityInputs],
     [section |-> "damages", values |-> DamagesInputs],
     [section |-> "coverage",
      values |-> {CoverageOfKind(kind) : kind \in CoverageKinds}]}

\* an extraction whose ClientInfo scalars and Coverage strings all hold the
\* same value, null or a non-empty string
CoverageStrings == CoverageFields \ CoverageBooleans
SharedValues == {Null, Str("A"), Str("B")}
ExtractionHolding(value) ==
    [DefaultExtraction EXCEPT
        !["clientInfo"] = [field \in ClientInfoScalars |-> value]
                              @@ [caseType |-> Str("mva"), brief |-> Null],
        !["coverage"] = [field \in CoverageFields |->
                            IF field \in CoverageBooleans THEN Null ELSE value]]

\* mergeChunkExtractions is given a list of up to MaxExtractions extractions
InitMerger ==
    /\ \/ \E varying \in VaryingSections :
             \E n \in 0..MaxExtractions :
                 \E list \in [1..n -> varying.values] :
                     mergeInput =
                         [k \in 1..n |-> [DefaultExtraction EXCEPT ![varying.section] = list[k]]]
       \/ \E n \in 0..MaxExtractions :
             \E list \in [1..n -> SharedValues] :
                 mergeInput = [k \in 1..n |-> ExtractionHolding(list[k])]
    /\ merged = NotCalled
    /\ ppc = "merge"
    /\ MAX_RETRIES = 0
    /\ segmentsWithTurnIds = Undefined
    /\ chunksWithTurns = <<>>
    /\ numChunks = 0
    /\ i = 0
    /\ attempt = 0
    /\ stale = EmptyBag
    /\ settled = {}
    /\ extractions = <<>>
    /\ passedTurns = {}
    /\ dispatched = {}
    /\ failedAttempts = {}
    /\ ChunkerIdle

\* one call of mergeChunkExtractions
MergeCall ==
    /\ ppc = "merge"
    /\ merged' = mergeChunkExtractions(mergeInput)
    /\ ppc' = IF merged'.threw THEN "thrown" ELSE "returned"
    /\ UNCHANGED <<MAX_RETRIES, segmentsWithTurnIds, chunksWithTurns, numChunks,
                   i, attempt, stale, settled, extractions, mergeInput,
                   passedTurns, dispatched, failedAttempts>>
    /\ UNCHANGED chunkerVars

NextMerger == MergeCall

SpecMerger == InitMerger /\ [][NextMerger]_vars

----------------------------------------------------------------------------
(* Properties of the merger *)

MergeDone == ppc \in {"thrown", "returned"}

\* the section merge functions ran: two or more extractions were merged
SectionsMerged == ppc = "returned" /\ Len(mergeInput) >= 2

\* the chunks' values of one section, in chunk order
ChunkValues(section) == [k \in 1..Len(mergeInput) |-> mergeInput[k][section]]

Unknown == {Null, Undefined}

\* the chunks whose value of a field is known (neither null nor absent)
ChunksKnowing(section, field) ==
    {k \in 1..Len(mergeInput) : mergeInput[k][section][field] \notin Unknown}

Latest(S) == CHOOSE k \in S : \A m \in S : m <= k
Earliest(S) == CHOOSE k \in S : \A m \in S : k <= m

\* C13: mergeChunkExtractions fails if and only if it is given zero
\* extractions: for every non-empty list it returns a result with the four
\* sections, whatever optional fields are null or absent in the chunk values.
C13_MergeFailsIffEmpty ==
    MergeDone =>
        /\ merged.threw <=> Len(mergeInput) = 0
        /\ Len(mergeInput) > 0 =>
              DOMAIN merged.value = {"clientInfo", "liability", "damages", "coverage"}

\* three extractions whose optional coverage strings are absent, null, absent
C13_Witness ==
    /\ ppc = "returned"
    /\ Len(mergeInput) = 3
    /\ mergeInput[1]["coverage"].notes = Undefined
    /\ mergeInput[2]["coverage"].notes = Null
    /\ mergeInput[3]["coverage"].policyLimits = Undefined
    /\ merged.threw = FALSE

\* C14: the Coverage merge is last-non-null-wins per field: the merged value
\* of every field is the value of the latest chunk that knows it, and is null
\* (or absent) only if no chunk knows it.  An explicit false is a known value:
\* a boolean is merged to false only if some chunk reported false, and a later
\* null never overwrites an earlier true or false.
C14_CoverageLastKnownWins ==
    SectionsMerged =>
        \A field \in CoverageFields :
            LET known == ChunksKnowing("coverage", field)
                value == merged.value["coverage"][field]
            IN  /\ known = {} <=> value \in Unknown
                /\ known # {} => value = mergeInput[Latest(known)]["coverage"][field]
                /\ value = Bool(FALSE) =>
                      \E k \in 1..Len(mergeInput) :
                          mergeInput[k]["coverage"][field] = Bool(FALSE)

\* true, then false, then null: false is kept, and so is an empty string
C14_Witness ==
    /\ SectionsMerged
    /\ Len(mergeInput) = 3
    /\ mergeInput[1]["coverage"].clientHasInsurance = Bool(TRUE)
    /\ mergeInput[2]["coverage"].clientHasInsurance = Bool(FALSE)
    /\ mergeInput[3]["coverage"].clientHasInsurance = Null
    /\ merged.value["coverage"].clientHasInsurance = Bool(FALSE)
    /\ merged.value["coverage"].notes = Str("")

\* C15: the ClientInfo merge returns, for each scalar field, the value of the
\* latest chunk whose value is non-null, and null only if every chunk's value
\* is null, for values drawn from null, the empty string and other strings.
C15_ClientInfoLatestNonNull ==
    SectionsMerged =>
        \A field \in ClientInfoScalars :
            LET known == ChunksKnowing("clientInfo", field)
                value == merged.value["clientInfo"][field]
            IN  /\ known = {} <=> value = Null
                /\ known # {} => value = mergeInput[Latest(known)]["clientInfo"][field]

\* the determinations of the chunks, in chunk order
Determinations == [k \in 1..Len(mergeInput) |-> mergeInput[k]["liability"].atFault]

\* C16: the merged atFault is the determination of the earliest chunk whose
\* atFault is not unclear, and is unclear exactly when every chunk says
\* unclear; a later differing determination never overrides it.
C16_AtFaultEarliestDetermination ==
    SectionsMerged =>
        LET decided == {k \in 1..Len(mergeInput) : Determinations[k] # "unclear"}
            atFault == merged.value["liability"].atFault
        IN  /\ atFault = "unclear" <=> decided = {}
            /\ decided # {} => atFault = Determinations[Earliest(decided)]

\* unclear, then client, then a differing later determination
C16_Witness ==
    /\ SectionsMerged
    /\ Determinations = <<"unclear", "client", "other_party">>
    /\ merged.value["liability"].atFault = "client"

\* the chunks that reported shared fault with percentages present
SharedWithPercentages ==
    {k \in 1..Len(mergeInput) :
        /\ mergeInput[k]["liability"].atFault = "shared"
        /\ mergeInput[k]["liability"].faultPercentages # Undefined}

RECURSIVE PercentageTotal(_, _)
PercentageTotal(S, party) ==
    IF S = {} THEN 0
    ELSE LET k == CHOOSE k \in S : TRUE
         IN  mergeInput[k]["liability"].faultPercentages.v[party]
                 + PercentageTotal(S \ {k}, party)

\* r is total / n rounded to the nearest integer, a half rounded up
NearestInteger(r, total, n) ==
    /\ 2 * n * r - n <= 2 * total
    /\ 2 * total < 2 * n * r + n

\* C17: merged faultPercentages is produced only when the merged atFault is
\* shared, and then client and otherParty are each the average, rounded to
\* the nearest integer, over exactly the chunks that reported shared with
\* percentages present; when the merged atFault is not shared the merged
\* Liability has no faultPercentages.
C17_FaultPercentagesAveraged ==
    SectionsMerged =>
        LET liability == merged.value["liability"]
            n == Cardinality(SharedWithPercentages)
        IN  /\ liability.atFault # "shared" => liability.faultPercentages = Undefined
            /\ liability.faultPercentages # Undefined =>
                  /\ liability.atFault = "shared"
                  /\ n > 0
                  /\ DOMAIN liability.faultPercentages.v = {"client", "otherParty"}
                  /\ \A party \in {"client", "otherParty"} :
                        NearestInteger(liability.faultPercentages.v[party],
                                       PercentageTotal(SharedWithPercentages, party), n)
            /\ (liability.atFault = "shared" /\ n > 0) =>
                  liability.faultPercentages # Undefined

\* shared 30/70, client 45/55, shared 45/55: the second chunk does not count,
\* and the averages 37.5 and 62.5 are rounded to 38 and 63
C17_Witness ==
    /\ SectionsMerged
    /\ Determinations = <<"shared", "client", "shared">>
    /\ mergeInput[1]["liability"].faultPercentages = Percentages(30, 70)
    /\ mergeInput[2]["liability"].faultPercentages = Percentages(45, 55)
    /\ mergeInput[3]["liability"].faultPercentages = Percentages(45, 55)
    /\ merged.value["liability"].faultPercentages = Percentages(38, 63)

\* C18: for two or more chunk Liability values that LiabilitySchema accepts,
\* whenever the merged atFault is shared the merged Liability has
\* faultPercentages present.
C18_SharedHasPercentages ==
    SectionsMerged =>
        (merged.value["liability"].atFault = "shared" =>
            merged.value["liability"].faultPercentages # Undefined)

\* the lines of a text: the stretches between its line feeds
LineFeeds(text) == {k \in 1..Len(text) : SubSeq(text, k, k) = "\n"}
LinesOf(text) ==
    LET feeds == LineFeeds(text)
        FeedBefore(j) ==
            IF j = 1 THEN 0
            ELSE CHOOSE k \in feeds : Cardinality({q \in feeds : q < k}) = j - 2
        FeedAfter(j) ==
            IF j = Cardinality(feeds) + 1 THEN Len(text) + 1
            ELSE CHOOSE k \in feeds : Cardinality({q \in feeds : q < k}) = j - 1
    IN  [j \in 1..(Cardinality(feeds) + 1) |->
            SubSeq(text, FeedBefore(j) + 1, FeedAfter(j) - 1)]

Blank(text) == \A k \in 1..Len(text) : SubSeq(text, k, k) \in {" ", "\t", "\r", "\n"}

\* the text without the white space at its two ends
Trimmed(text) ==
    LET n == Len(text)
        leading == CHOOSE m \in 0..n :
                      /\ Blank(SubSeq(text, 1, m))
                      /\ m < n => ~Blank(SubSeq(text, m + 1, m + 1))
        trailing == CHOOSE m \in 0..n :
                       /\ Blank(SubSeq(text, n - m + 1, n))
                       /\ m < n => ~Blank(SubSeq(text, n - m, n - m))
    IN  IF leading = n THEN "" ELSE SubSeq(text, leading + 1, n - trailing)

Bullet(line) == Trimmed(line) # "" /\ SubSeq(Trimmed(line), 1, 1) \in {"-", "*"}

\* the trimmed bullet lines of chunks 1..n, in chunk order then line order
RECURSIVE BulletLinesUpTo(_)
BulletLinesUpTo(n) ==
    IF n = 0 THEN <<>>
    ELSE LET lines == SelectSeq(LinesOf(mergeInput[n]["liability"].rationale), Bullet)
         IN  BulletLinesUpTo(n - 1) \o [j \in 1..Len(lines) |-> Trimmed(lines[j])]

\* C19: the merged rationale consists of the bullet lines (lines that, after
\* trimming, begin with - or *) of all chunks' rationales, trimmed, in chunk
\* order then line order, with exact duplicates removed: each distinct line
\* appears once, at the position of its first occurrence.
C19_RationaleBulletsDeduplicated ==
    SectionsMerged =>
        LET all == BulletLinesUpTo(Len(mergeInput))
            first == {k \in 1..Len(all) : \A j \in 1..(k - 1) : all[j] # all[k]}
            out == IF merged.value["liability"].rationale = "" THEN <<>>
                   ELSE LinesOf(merged.value["liability"].rationale)
        IN  /\ Len(out) = Cardinality(first)
            /\ \A k \in first :
                  out[Cardinality({j \in first : j <= k})] = all[k]

\* an indented bullet, a line that is no bullet, a blank line and a bullet
\* that a later chunk repeats
C19_Witness ==
    /\ SectionsMerged
    /\ Len(mergeInput) = 2
    /\ mergeInput[1]["liability"].rationale
          = "Summary:\n  * ran a red light  \n- speeding\n\n-  speeding"
    /\ mergeInput[2]["liability"].rationale = "- speeding\n- ran a red light"
    /\ merged.value["liability"].rationale
          = "* ran a red light\n- speeding\n-  speeding\n- ran a red light"

\* C20: merged hasPoliceReport is true if and only if at least one chunk
\* reported hasPoliceReport true, whatever the order of the chunks; it is a
\* boolean, never null.
C20_PoliceReportIfAnyChunk ==
    SectionsMerged =>
        /\ merged.value["liability"].hasPoliceReport \in BOOLEAN
        /\ merged.value["liability"].hasPoliceReport
              <=> \E k \in 1..Len(mergeInput) : mergeInput[k]["liability"].hasPoliceReport
        /\ merged.value["liability"].hasPoliceReport
              = mergeLiability(Reverse(ChunkValues("liability"))).hasPoliceReport

\* only the middle chunk of three mentions a police report
C20_Witness ==
    /\ SectionsMerged
    /\ Len(mergeInput) = 3
    /\ ~mergeInput[1]["liability"].hasPoliceReport
    /\ mergeInput[2]["liability"].hasPoliceReport
    /\ ~mergeInput[3]["liability"].hasPoliceReport
    /\ merged.value["liability"].hasPoliceReport = TRUE

\* the rank of a severity under low < medium < high
SeverityRank(severity) ==
    CHOOSE r \in 1..3 : <<"low", "medium", "high">>[r] = severity

\* C21: the merged Damages.severity is the maximum of the chunks' overall
\* severities under low < medium < high: it is the overall severity of some
\* chunk and no chunk's overall severity ranks above it, so it does not
\* depend on the order of the chunks.
C21_SeverityIsMaximum ==
    SectionsMerged =>
        LET severity == merged.value["damages"].severity
        IN  /\ \E k \in 1..Len(mergeInput) : mergeInput[k]["damages"].severity = severity
            /\ \A k \in 1..Len(mergeInput) :
                   SeverityRank(mergeInput[k]["damages"].severity) <= SeverityRank(severity)

\* the highest severity comes from the middle chunk of three
C21_Witness ==
    /\ ppc = "returned"
    /\ Len(mergeInput) = 3
    /\ mergeInput[1]["damages"].severity = "medium"
    /\ mergeInput[2]["damages"].severity = "high"
    /\ mergeInput[3]["damages"].severity = "low"
    /\ merged.value["damages"].severity = "high"

\* the chunks' indication lists, concatenated in chunk order
RECURSIVE IndicationsUpTo(_)
IndicationsUpTo(n) ==
    IF n = 0 THEN <<>>
    ELSE IndicationsUpTo(n - 1) \o mergeInput[n]["damages"].indications

\* a text with its upper-case letters replaced by the lower-case ones
RECURSIVE Lowered(_)
Lowered(text) ==
    IF text = "" THEN ""
    ELSE LET last == SubSeq(text, Len(text), Len(text))
             rest == SubSeq(text, 1, Len(text) - 1)
         IN  IF \E k \in 1..26 : SubSeq(UpperCaseLetters, k, k) = last
             THEN Lowered(rest) \o
                  (LET k == CHOOSE k \in 1..26 : SubSeq(UpperCaseLetters, k, k) = last
                   IN  SubSeq(LowerCaseLetters, k, k))
             ELSE Lowered(rest) \o last

\* two indications are duplicates of each other
Duplicates(a, b) ==
    Lowered(Trimmed(a.description)) = Lowered(Trimmed(b.description))

\* the first n indications of a list without those that duplicate an earlier one
RECURSIVE WithoutDuplicatesUpTo(_, _)
WithoutDuplicatesUpTo(list, n) ==
    IF n = 0 THEN <<>>
    ELSE IF \E j \in 1..(n - 1) : Duplicates(list[j], list[n])
         THEN WithoutDuplicatesUpTo(list, n - 1)
         ELSE Append(WithoutDuplicatesUpTo(list, n - 1), list[n])

\* C22: the merged Damages.indications is the concatenation of the chunks'
\* indication lists in chunk order without the indications whose description,
\* trimmed and lower-cased, equals that of an earlier one; the occurrence kept
\* is the first, with its own severity.
C22_IndicationsFirstOccurrenceKept ==
    SectionsMerged =>
        LET all == IndicationsUpTo(Len(mergeInput))
        IN  merged.value["damages"].indications = WithoutDuplicatesUpTo(all, Len(all))

\* a low-severity " whiplash " is followed in the next chunk by a
\* high-severity "WHIPLASH", and the low-severity one is the one kept
C22_Witness ==
    /\ ppc = "returned"
    /\ Len(mergeInput) = 2
    /\ mergeInput[1]["damages"].indications =
           <<Indication(" whiplash ", "low"), Indication("Broken arm", "high")>>
    /\ mergeInput[2]["damages"].indications =
           <<Indication("Neck pain", "medium"), Indication("WHIPLASH", "high"),
             Indication("neck pain ", "low")>>
    /\ merged.value["damages"].indications =
           <<Indication(" whiplash ", "low"), Indication("Broken arm", "high"),
             Indication("Neck pain", "medium")>>

\* the Citation objects a section value carries
CitationsOf(value) ==
    LET citations == Prop(value, "citations")
    IN  IF citations \in Unknown THEN {}
        ELSE {citations.v[c] : c \in 1..Len(citations.v)}

\* the turn IDs a section value cites for a field
TurnsCitedFor(value, field) ==
    UNION {{c.turnIds[t] : t \in 1..Len(c.turnIds)} :
               c \in {c \in CitationsOf(value) : c.field = field}}

\* C23: when two or more chunk extractions are merged, every turn ID that a
\* chunk cites for a field of a section is cited for that field by the merged
\* section: the merge does not lose citations.
C23_CitationsNotLost ==
    SectionsMerged =>
        \A section \in Sections :
            \A k \in 1..Len(mergeInput) :
                \A c \in CitationsOf(mergeInput[k][section]) :
                    TurnsCitedFor(mergeInput[k][section], c.field)
                        \subseteq TurnsCitedFor(merged.value[section], c.field)

\* what a caller can read in a returned extraction: the properties that hold
\* a value, without the identity of the objects
RequiredProperties == {"atFault", "rationale", "hasPoliceReport", "severity", "indications"}
Observable(value) ==
    [section \in Sections |->
        LET object == value[section]
            held == {p \in DOMAIN object \ {"from"} :
                        p \in RequiredProperties \/ object[p] # Undefined}
        IN  [prop \in held |-> object[prop]]]

\* a run of processTranscript on the chunks of this transcript, given as the
\* attempt that succeeds on each chunk, 0 when the chunk is skipped
Runs == [1..numChunks -> 0..(IF MAX_RETRIES > 0 THEN 2 ELSE 1)]

\* the extractions a run collects from the first n chunks
RECURSIVE ExtractionsOfRun(_, _)
ExtractionsOfRun(run, n) ==
    IF n = 0 THEN <<>>
    ELSE IF run[n] = 0 THEN ExtractionsOfRun(run, n - 1)
         ELSE Append(ExtractionsOfRun(run, n - 1), AnswersOf(n, run[n]))

\* C24: what processTranscript returns tells how many chunks were extracted:
\* no run on the same transcript that extracts a different number of chunks
\* returns what this run returned.
C24_OutcomeTellsSuccessCount ==
    ppc = "returned" =>
        \A run \in Runs :
            LET others == ExtractionsOfRun(run, numChunks)
            IN  (Len(others) > 0 /\ Len(others) # Len(mergeInput)) =>
                    Observable(mergeChunkExtractions(others).value)
                        # Observable(merged.value)

\* both chunks were extracted at their first attempt
C24_BothExtracted ==
    /\ ppc = "returned"
    /\ numChunks = 2
    /\ Len(mergeInput) = 2
    /\ Observable(merged.value) = Observable(AnswersOf(1, 1))

\* the second chunk was skipped and the first chunk's extraction returned
C24_SecondSkipped ==
    /\ ppc = "returned"
    /\ numChunks = 2
    /\ Len(mergeInput) = 1
    /\ Observable(merged.value) = Observable(AnswersOf(1, 1))

----------------------------------------------------------------------------
(* chunkTranscript followed by the turn mapping of processTranscript: the  *)
(* caller stores one turn per segment and supplies them with their IDs     *)

\* createdTurns mapped to segmentsWithTurnIds: turn k is segment k
TurnsOfTranscript(segments) ==
    Arr([k \in 1..Len(segments) |-> Turn(k, segments[k].speaker, segments[k].content)])

InitTurns ==
    /\ \E in \in ChunkerInputs :
          /\ transcript = in[1]
          /\ maxChunkTokens = in[2]
          /\ overlapTokens = in[3]
          /\ segmentsWithTurnIds = TurnsOfTranscript(in[1])
    /\ fullText = ""
    /\ chunks = <<>>
    /\ currentPosition = 0
    /\ spans = <<>>
    /\ cpc = "start"
    /\ MAX_RETRIES = 0
    /\ numChunks = 0
    /\ i = 0
    /\ attempt = 0
    /\ stale = EmptyBag
    /\ settled = {}
    /\ extractions = <<>>
    /\ mergeInput = <<>>
    /\ dispatched = {}
    /\ failedAttempts = {}
    /\ ppc = "idle"
    /\ chunksWithTurns = <<>>
    /\ passedTurns = {}
    /\ merged = NotCalled

\* lines 39-78 of processTranscript, on the chunks chunkTranscript returned
MapTurns ==
    /\ cpc = "done"
    /\ ppc = "idle"
    /\ chunksWithTurns' = MapTurnsToChunks(chunks, segmentsWithTurnIds)
    /\ numChunks' = Len(chunks)
    /\ ppc' = "mapped"
    /\ UNCHANGED <<MAX_RETRIES, segmentsWithTurnIds, i, attempt, stale, settled,
                   extractions, mergeInput, merged, passedTurns, dispatched,
                   failedAttempts>>
    /\ UNCHANGED chunkerVars

NextTurns == ChunkTranscriptEntry \/ ChunkLoopStep \/ ChunkLoopExit \/ MapTurns

SpecTurns == InitTurns /\ [][NextTurns]_vars

\* the IDs of the turns associated with chunk k
TurnIdsOfChunk(k) ==
    {chunksWithTurns[k].turns[t].turnId : t \in 1..Len(chunksWithTurns[k].turns)}

\* C25: when turn identifiers are supplied, every supplied turn is associated
\* with at least one chunk, whatever the transcript and the chunking
\* parameters.
C25_EveryTurnInSomeChunk ==
    (ppc = "mapped" /\ Len(segmentsWithTurnIds.v) > 0) =>
        \A t \in 1..Len(segmentsWithTurnIds.v) :
            \E k \in 1..Len(chunksWithTurns) :
                segmentsWithTurnIds.v[t].turnId \in TurnIdsOfChunk(k)

----------------------------------------------------------------------------
(* Further properties of the chunker *)

\* C26: on the multi-chunk path every chunk after the first ends strictly
\* later in the flattened text than the chunk before it ends, so no chunk is
\* wholly contained in the previous one.
C26_ChunkEndsAdvance ==
    MultiChunkPath =>
        \A k \in 2..Len(spans) : spans[k][2] > spans[k - 1][2]

----------------------------------------------------------------------------
(* Further properties of the merger *)

\* C27: if every chunk that contributes to the shared-fault average has
\* percentages with client + otherParty = 100, the merged faultPercentages
\* also has client + otherParty = 100.
C27_PercentagesSumPreserved ==
    (/\ SectionsMerged
     /\ merged.value["liability"].faultPercentages # Undefined
     /\ \A k \in SharedWithPercentages :
            LET given == mergeInput[k]["liability"].faultPercentages.v
            IN  given.client + given.otherParty = 100)
    => LET result == merged.value["liability"].faultPercentages.v
       IN  result.client + result.otherParty = 100

\* the returned Damages holds no two indications that duplicate each other
NoDuplicateIndications ==
    LET list == merged.value["damages"].indications
    IN  \A a, b \in 1..Len(list) : Duplicates(list[a], list[b]) => a = b

\* C28 as stated: for any non-empty list of chunk extractions, a list of
\* exactly one included, the returned Damages contains no two indications
\* whose descriptions are equal after trimming and lower-casing.
C28_NoDuplicateIndications ==
    ppc = "returned" => NoDuplicateIndications

\* C28 amended: for any list of two or more chunk extractions the returned
\* Damages contains no two indications whose descriptions are equal after
\* trimming and lower-casing.
C28_NoDuplicateIndicationsWhenMerged ==
    SectionsMerged => NoDuplicateIndications

\* two chunks that each repeat an indication within their own list, and
\* share one across
C28_Witness ==
    /\ SectionsMerged
    /\ Len(mergeInput) = 2
    /\ \A k \in 1..2 :
           mergeInput[k]["damages"].indications =
               <<Indication("Neck pain", "medium"), Indication("WHIPLASH", "high"),
                 Indication("neck pain ", "low")>>
    /\ merged.value["damages"].indications =
           <<Indication("Neck pain", "medium"), Indication("WHIPLASH", "high")>>

\* C29: if at least one chunk supplies a non-null case brief in its
\* ClientInfo, the ClientInfo returned by mergeChunkExtractions has a
\* non-null brief, for any number of chunks.
C29_BriefSurvivesMerge ==
    (/\ ppc = "returned"
     /\ \E k \in 1..Len(mergeInput) :
            Prop(mergeInput[k]["clientInfo"], "brief") \notin Unknown)
    => Prop(merged.value["clientInfo"], "brief") \notin Unknown

\* null or a non-empty string
NullOrNonEmptyString(value) ==
    value = Null \/ (value.t = "string" /\ value.v # "")

\* every chunk gives one value, null or a non-empty string, to all of its
\* ClientInfo scalars and Coverage strings: the two rules see the same list
SameListForBothRules ==
    \A k \in 1..Len(mergeInput) :
        \A field \in ClientInfoScalars, other \in CoverageStrings :
            /\ NullOrNonEmptyString(mergeInput[k]["clientInfo"][field])
            /\ mergeInput[k]["coverage"][other] = mergeInput[k]["clientInfo"][field]

\* C30: on a list of per-chunk values drawn from null and non-empty strings
\* the ClientInfo rule and the Coverage rule select the same value, the last
\* non-null one (null when there is none).
C30_PrecedenceRulesAgree ==
    (SectionsMerged /\ SameListForBothRules) =>
        \A field \in ClientInfoScalars, other \in CoverageStrings :
            LET known == ChunksKnowing("clientInfo", field)
            IN  /\ merged.value["clientInfo"][field] = merged.value["coverage"][other]
                /\ merged.value["clientInfo"][field] =
                       IF known = {} THEN Null
                       ELSE mergeInput[Latest(known)]["clientInfo"][field]

\* the chunks hold "A", "B" and null: both rules select "B"
C30_Witness ==
    /\ SectionsMerged
    /\ Len(mergeInput) = 3
    /\ mergeInput[1]["clientInfo"].clientName = Str("A")
    /\ mergeInput[2]["clientInfo"].clientName = Str("B")
    /\ mergeInput[3]["clientInfo"].clientName = Null
    /\ mergeInput[1]["coverage"].notes = Str("A")
    /\ mergeInput[2]["coverage"].notes = Str("B")
    /\ mergeInput[3]["coverage"].notes = Null
    /\ merged.value["clientInfo"].clientName = Str("B")
    /\ merged.value["coverage"].notes = Str("B")

====
